---- MODULE Spec2Model ----
(***************************************************************************)
(* SPH_3D.ipynb: smoothed-particle-hydrodynamics run of N particles.       *)
(* The notebook's cells are modelled in execution order: output-directory  *)
(* cleanup, initial(), the main loop (acceleration, velocity update,       *)
(* position update, density, savefig) and the video export.                *)
(*                                                                         *)
(* numpy's float64 arithmetic is modelled as binary floating point with    *)
(* round-to-nearest-even, signed zeros, infinities and NaN, the exponent   *)
(* range of float64 and a significand of Prec bits.                        *)
(***************************************************************************)
EXTENDS Integers, Sequences, FiniteSets, TLC

\* significand width of the modelled floating-point format (float64: 53)
Prec == 11
\* exponent of the smallest positive float64 (2^-1074)
EMinQ == 0 - 1074
\* float64 values are below 2^1024
EMaxBits == 1024

----------------------------------------------------------------------------
\* Floating-point values: k = 0 finite (-1)^s * m * 2^e, k = 1 infinity, k = 2 NaN

Fin(s, m, e) == [k |-> 0, s |-> s, m |-> m, e |-> e]
Inf(s) == [k |-> 1, s |-> s, m |-> 0, e |-> 0]
NaN == [k |-> 2, s |-> 0, m |-> 0, e |-> 0]
Zero(s) == Fin(s, 0, 0)

IsNaN(a) == a.k = 2
IsInf(a) == a.k = 1
IsFinite(a) == a.k = 0
IsZero(a) == a.k = 0 /\ a.m = 0

Xor(s, t) == IF s = t THEN 0 ELSE 1

RECURSIVE BitLen(_)
BitLen(m) == IF m = 0 THEN 0 ELSE 1 + BitLen(m \div 2)

Max(x, y) == IF x > y THEN x ELSE y
Min(x, y) == IF x < y THEN x ELSE y

\* m * 2^e with m of L <= Prec bits, as a value of the format: infinite when it
\* is 2^1024 or more, else with the widest significand the exponent range allows
PackBits(s, m, e, L) ==
  IF m = 0 THEN Zero(s)
  ELSE IF L + e > EMaxBits THEN Inf(s)
  ELSE Fin(s, m * 2^Min(Prec - L, e - EMinQ), e - Min(Prec - L, e - EMinQ))

\* m of at most Prec bits, or 2^Prec after a rounding carry
Pack(s, m, e) ==
  IF m = 2^Prec THEN PackBits(s, 2^(Prec - 1), e + 1, Prec)
  ELSE PackBits(s, m, e, BitLen(m))

\* q + r / (2 * half), rounded to an integer: to nearest, ties to even
NearestEven(q, r, half) ==
  IF r > half \/ (r = half /\ q % 2 = 1) THEN q + 1 ELSE q

\* m * 2^e, m of L bits, with the low shift bits rounded away
RoundShift(s, m, e, L, shift) ==
  IF shift > L THEN Zero(s)
  ELSE IF shift <= 0 THEN PackBits(s, m, e, L)
  ELSE Pack(s, NearestEven(m \div 2^shift, m % 2^shift, 2^(shift - 1)), e + shift)

RoundBits(s, m, e, L) == RoundShift(s, m, e, L, Max(L - Prec, EMinQ - e))

\* the exact value m * 2^e rounded to the format (nearest, ties to even)
Round(s, m, e) == RoundBits(s, m, e, BitLen(m))

One == Fin(0, 2^(Prec - 1), 1 - Prec)

FromInt(n) == Round(IF n < 0 THEN 1 ELSE 0, IF n < 0 THEN 0 - n ELSE n, 0)

FNeg(a) == IF a.k = 2 THEN NaN ELSE [a EXCEPT !.s = 1 - a.s]

FMul(a, b) ==
  IF a.k = 2 \/ b.k = 2 THEN NaN
  ELSE IF a.k = 1 \/ b.k = 1
  THEN IF IsZero(a) \/ IsZero(b) THEN NaN ELSE Inf(Xor(a.s, b.s))
  ELSE Round(Xor(a.s, b.s), a.m * b.m, a.e + b.e)

Signed(a) == IF a.s = 1 THEN 0 - a.m ELSE a.m

\* the integer v times 2^e, rounded; an exact zero sum is +0.0
RoundSigned(v, e) ==
  IF v = 0 THEN Zero(0) ELSE Round(IF v < 0 THEN 1 ELSE 0, IF v < 0 THEN 0 - v ELSE v, e)

\* finite nonzero operands, a.e >= b.e: b is below a quarter of a's last place when
\* the exponents differ by Prec + 3 or more
AddAligned(a, b) ==
  IF a.e - b.e >= Prec + 3 THEN a
  ELSE RoundSigned(Signed(a) * 2^(a.e - b.e) + Signed(b), b.e)

FAdd(a, b) ==
  IF a.k = 2 \/ b.k = 2 THEN NaN
  ELSE IF a.k = 1 THEN (IF b.k = 1 /\ b.s # a.s THEN NaN ELSE a)
  ELSE IF b.k = 1 THEN b
  ELSE IF a.m = 0 THEN (IF b.m = 0 THEN Zero(IF a.s = 1 /\ b.s = 1 THEN 1 ELSE 0) ELSE b)
  ELSE IF b.m = 0 THEN a
  ELSE AddAligned(IF a.e >= b.e THEN a ELSE b, IF a.e >= b.e THEN b ELSE a)

FSub(a, b) == FAdd(a, FNeg(b))

\* num / den of integers, den > 0, as a quotient with a sticky last bit
StickyQuot(num, den) == 2 * (num \div den) + (IF num % den = 0 THEN 0 ELSE 1)

\* (ma * 2^ea) / (mb * 2^eb), the significands widened to Prec bits first
DivFinite(s, ma, ea, ka, mb, eb, kb) ==
  Round(s, StickyQuot(ma * 2^(ka + Prec + 2), mb * 2^kb),
        (ea - ka) - (eb - kb) - (Prec + 2) - 1)

\* numpy division: a zero divisor gives inf or NaN (a RuntimeWarning, no exception)
FDiv(a, b) ==
  IF a.k = 2 \/ b.k = 2 THEN NaN
  ELSE IF a.k = 1 THEN (IF b.k = 1 THEN NaN ELSE Inf(Xor(a.s, b.s)))
  ELSE IF b.k = 1 THEN Zero(Xor(a.s, b.s))
  ELSE IF b.m = 0 THEN (IF a.m = 0 THEN NaN ELSE Inf(Xor(a.s, b.s)))
  ELSE IF a.m = 0 THEN Zero(Xor(a.s, b.s))
  ELSE DivFinite(Xor(a.s, b.s), a.m, a.e, Prec - BitLen(a.m), b.m, b.e, Prec - BitLen(b.m))

RECURSIVE ISqrtBS(_, _, _)
\* the largest r in lo..hi with r*r <= n
ISqrtBS(n, lo, hi) ==
  IF lo = hi THEN lo
  ELSE IF ((lo + hi + 1) \div 2) * ((lo + hi + 1) \div 2) <= n
       THEN ISqrtBS(n, (lo + hi + 1) \div 2, hi)
       ELSE ISqrtBS(n, lo, ((lo + hi + 1) \div 2) - 1)

\* sqrt(n * 2^e) for e even, given r = floor(sqrt(n)), r of Prec + 1 bits
SqrtRound(n, e, r) == Round(0, 2 * r + (IF r * r = n THEN 0 ELSE 1), (e \div 2) - 1)

\* sqrt(m * 2^e), m widened by k bits to 2 * Prec + 1 or 2 * Prec + 2 bits
SqrtWiden(m, e, k) == SqrtRound(m * 2^k, e - k, ISqrtBS(m * 2^k, 0, 2^(Prec + 1)))

SqrtEven(m, e, k) == SqrtWiden(m, e, IF (e - k) % 2 = 0 THEN k ELSE k - 1)

FSqrt(a) ==
  IF a.k = 2 THEN NaN
  ELSE IF a.k = 0 /\ a.m = 0 THEN a
  ELSE IF a.s = 1 THEN NaN
  ELSE IF a.k = 1 THEN a
  ELSE SqrtEven(a.m, a.e, 2 * Prec + 2 - BitLen(a.m))

RECURSIVE ExpSeries(_, _, _, _)
\* sum_{j >= i} (-x)^j / j! in units of 2^-15, x = f * 2^-15 in [0, ln 2), t = x^i / i!
ExpSeries(f, t, i, sgn) ==
  IF t = 0 THEN 0
  ELSE sgn * t + ExpSeries(f, (t * f) \div (32768 * (i + 1)), i + 1, 0 - sgn)

\* exp(-Q * 2^-20): 2^-j * exp(-x), with Q * 2^-20 = j * ln 2 + x
ExpFixed(Q) == Round(0, ExpSeries((Q % 726817) \div 32, 32768, 0, 1), 0 - 15 - (Q \div 726817))

\* exp(-|a|) of a finite float a; 0.0 from |a| = 1024 on
ExpNeg(a) ==
  IF a.m = 0 THEN One
  ELSE IF BitLen(a.m) + a.e > 10 THEN Zero(0)
  ELSE ExpFixed(IF a.e + 20 >= 0 THEN a.m * 2^(a.e + 20)
                ELSE IF 0 - (a.e + 20) > 30 THEN 0 ELSE a.m \div 2^(0 - (a.e + 20)))

\* exp(a) from en = exp(-|a|)
ExpOfSign(s, en) == IF s = 1 THEN en ELSE FDiv(One, en)

FExp(a) ==
  IF a.k = 2 THEN NaN
  ELSE IF a.k = 1 THEN (IF a.s = 1 THEN Zero(0) ELSE a)
  ELSE ExpOfSign(a.s, ExpNeg(a))

RECURSIVE FPowInt(_, _)
\* x ** p for an integer p >= 0
FPowInt(x, p) == IF p = 0 THEN One
                 ELSE IF p = 1 THEN x ELSE FMul(FPowInt(x, p - 1), x)

\* comparisons of Python floats: false when an operand is NaN, -0.0 == 0.0
FEq(a, b) ==
  /\ a.k # 2 /\ b.k # 2
  /\ \/ a = b
     \/ IsZero(a) /\ IsZero(b)

\* |x| < |y| for finite values
MagLt(x, y) == IF x.m = 0 THEN y.m # 0
               ELSE IF y.m = 0 THEN FALSE
               ELSE IF x.e # y.e THEN x.e < y.e ELSE x.m < y.m

IsNegative(x) == x.s = 1 /\ x.m # 0

\* a < b for finite a, b
FLt(a, b) ==
  IF IsNegative(a) THEN (IF IsNegative(b) THEN MagLt(b, a) ELSE TRUE)
  ELSE IF IsNegative(b) THEN FALSE ELSE MagLt(a, b)

\* np.pi and np.pi**(3/2)
FPi == Round(0, 843314857, 0 - 28)
FPi32 == Round(0, 1494736665, 0 - 28)

\* np.minimum(a, b): NaN when an operand is NaN
FMin(a, b) ==
  IF a.k = 2 \/ b.k = 2 THEN NaN
  ELSE IF a.k = 1 THEN (IF a.s = 1 THEN a ELSE b)
  ELSE IF b.k = 1 THEN (IF b.s = 1 THEN b ELSE a)
  ELSE IF FLt(b, a) THEN b ELSE a

\* the float nearest to num / den (a decimal literal such as 0.01 or 2.01)
FromRatio(num, den) == FDiv(FromInt(num), FromInt(den))

----------------------------------------------------------------------------
\* numpy arrays: a vector is a sequence, a matrix a sequence of rows

Vec(len, F(_)) == [i \in 1..len |-> F(i)] \o <<>>
Mat(rows, cols, F(_, _)) == Vec(rows, LAMBDA i : Vec(cols, LAMBDA j : F(i, j)))

RECURSIVE SumFrom(_, _, _)
SumFrom(row, j, total) ==
  IF j > Len(row) THEN total ELSE SumFrom(row, j + 1, FAdd(total, row[j]))

\* np.sum(., 1) of one row: the elements are added in index order, starting from 0.0
SumRow(row) == SumFrom(row, 1, Zero(0))

----------------------------------------------------------------------------
\* Constants of the notebook (cell 1); a parameter record holds those the run reads

\* M, the star mass: the particle mass is m = M/N
StarMass == 2
\* the most particles of a modelled run (N = 500 in the notebook)
MaxN == 3
\* the most timesteps of a modelled run (Nt = 800 in the notebook)
MaxNt == 2

\* the steps of one longer run of a single particle, whose frame names reach two digits
LongNt == 11

\* x**2 of numpy: one multiplication
FSquare(x) == FMul(x, x)

FSqrtPi == FSqrt(FPi)

\* r = np.sqrt(x**2 + y**2 + z**2) of one pair
radius(x, y, z) == FSqrt(FAdd(FAdd(FSquare(x), FSquare(y)), FSquare(z)))

\* np.exp(-r**2 / h**2) of one pair
gauss(r, h2) == FExp(FDiv(FNeg(FSquare(r)), h2))

\* (1.0 / (h * np.sqrt(np.pi)))**3
kernelNorm(h) == FPowInt(FDiv(One, FMul(h, FSqrtPi)), 3)

kernelScaled(x, y, z, c, h2) ==
  Mat(Len(x), Len(x[1]), LAMBDA i, j :
    FMul(c, gauss(radius(x[i][j], y[i][j], z[i][j]), h2)))

kernel(x, y, z, h) == kernelScaled(x, y, z, kernelNorm(h), FSquare(h))

\* n = -2 * np.exp(-r**2 / h**2) / h**5 / (np.pi)**(3/2)
gradFactor(x, y, z, h2, h5) ==
  Mat(Len(x), Len(x[1]), LAMBDA i, j :
    FDiv(FDiv(FMul(FromInt(0 - 2), gauss(radius(x[i][j], y[i][j], z[i][j]), h2)), h5),
         FPi32))

\* the factor times the distance r on every axis, the direction lost
gradScaledRadial(x, y, z, nn) ==
  [wx |-> Mat(Len(x), Len(x[1]), LAMBDA i, j : FMul(nn[i][j], radius(x[i][j], y[i][j], z[i][j]))),
   wy |-> Mat(Len(x), Len(x[1]), LAMBDA i, j : FMul(nn[i][j], radius(x[i][j], y[i][j], z[i][j]))),
   wz |-> Mat(Len(x), Len(x[1]), LAMBDA i, j : FMul(nn[i][j], radius(x[i][j], y[i][j], z[i][j])))]

\* wx = n * x, wy = n * y, wz = n * z
gradScaled(x, y, z, nn) ==
  [wx |-> Mat(Len(x), Len(x[1]), LAMBDA i, j : FMul(nn[i][j], x[i][j])),
   wy |-> Mat(Len(x), Len(x[1]), LAMBDA i, j : FMul(nn[i][j], y[i][j])),
   wz |-> Mat(Len(x), Len(x[1]), LAMBDA i, j : FMul(nn[i][j], z[i][j]))]

gradKernel(x, y, z, h) == gradScaled(x, y, z, gradFactor(x, y, z, FSquare(h), FPowInt(h, 5)))

\* the sum ri + rj.T where the difference is meant
magnitudePlus(ri, rj) ==
  [dx |-> Mat(Len(ri), Len(rj), LAMBDA i, j : FAdd(ri[i][1], rj[j][1])),
   dy |-> Mat(Len(ri), Len(rj), LAMBDA i, j : FAdd(ri[i][2], rj[j][2])),
   dz |-> Mat(Len(ri), Len(rj), LAMBDA i, j : FAdd(ri[i][3], rj[j][3]))]

\* dx = ri[:, 0] - rj[:, 0].T, and dy, dz alike: one row per point of ri
magnitude(ri, rj) ==
  [dx |-> Mat(Len(ri), Len(rj), LAMBDA i, j : FSub(ri[i][1], rj[j][1])),
   dy |-> Mat(Len(ri), Len(rj), LAMBDA i, j : FSub(ri[i][2], rj[j][2])),
   dz |-> Mat(Len(ri), Len(rj), LAMBDA i, j : FSub(ri[i][3], rj[j][3]))]

\* the sum over the other particles only, the own term left out
densitySumOthers(w, m) ==
  Vec(Len(w), LAMBDA i :
    SumRow(Vec(Len(w[i]), LAMBDA j : IF j = i THEN Zero(0) ELSE FMul(m, w[i][j]))))

\* np.sum(m * w, 1): one density per row of the kernel matrix
densitySum(w, m) ==
  Vec(Len(w), LAMBDA i : SumRow(Vec(Len(w[i]), LAMBDA j : FMul(m, w[i][j]))))

kernelOf(d, h) == kernel(d.dx, d.dy, d.dz, h)

density(r, pos, m, h) == densitySum(kernelOf(magnitude(r, pos), h), m)

\* 1 + 1/n raises ZeroDivisionError for n = 0
pressureRaises(n) == n = 0

\* k * rho**(1 + 1/n), for the n whose exponent 1 + 1/n is an integer
pressure(rho, k, n) ==
  Vec(Len(rho), LAMBDA i : FMul(k, FPowInt(rho[i], 1 + (1 \div n))))

\* P/rho**2 of each particle
pressureCoef(P, rho) == Vec(Len(rho), LAMBDA i : FDiv(P[i], FSquare(rho[i])))

\* element [i, j] of m * (P/rho**2 + P.T/rho.T**2) * dW
pairTerm(m, c, dW, i, j) == FMul(FMul(m, FAdd(c[i], c[j])), dW[i][j])

\* the sums without their minus sign
pairSumsAttractive(m, c, g) ==
  Vec(Len(c), LAMBDA i :
    <<SumRow(Vec(Len(c), LAMBDA j : pairTerm(m, c, g.wx, i, j))),
      SumRow(Vec(Len(c), LAMBDA j : pairTerm(m, c, g.wy, i, j))),
      SumRow(Vec(Len(c), LAMBDA j : pairTerm(m, c, g.wz, i, j)))>>)

\* ax, ay, az: - np.sum(m * (...) * dW, 1) of each axis, one row per particle
pairSums(m, c, g) ==
  Vec(Len(c), LAMBDA i :
    <<FNeg(SumRow(Vec(Len(c), LAMBDA j : pairTerm(m, c, g.wx, i, j)))),
      FNeg(SumRow(Vec(Len(c), LAMBDA j : pairTerm(m, c, g.wy, i, j)))),
      FNeg(SumRow(Vec(Len(c), LAMBDA j : pairTerm(m, c, g.wz, i, j))))>>)

gradOf(d, h) == gradKernel(d.dx, d.dy, d.dz, h)

\* the pressure contribution of acceleration(), from rho = density(pos, pos, m, h)
pressureAcc(pos, rho, m, h, k, n) ==
  pairSums(m, pressureCoef(pressure(rho, k, n), rho), gradOf(magnitude(pos, pos), h))

\* a += -lmbda * pos - nu * vel
addExternal(a, pos, vel, lmbda, nu) ==
  Vec(Len(pos), LAMBDA i : Vec(3, LAMBDA c :
    FAdd(a[i][c], FSub(FMul(FNeg(lmbda), pos[i][c]), FMul(nu, vel[i][c])))))

acceleration(pos, vel, m, h, k, n, lmbda, nu) ==
  addExternal(pressureAcc(pos, density(pos, pos, m, h), m, h, k, n), pos, vel, lmbda, nu)

\* x + y * dt, elementwise (vel += acc * dt, pos += vel * dt)
AddScaled(x, y, dt) ==
  Vec(Len(x), LAMBDA i : Vec(3, LAMBDA c : FAdd(x[i][c], FMul(y[i][c], dt))))

----------------------------------------------------------------------------
\* File names of the output directory: <<stem, extension>>, the stem a sequence of
\* characters, 0..9 the digits and Letter any other character

Letter == 10
IsDigit(c) == c < Letter

RECURSIVE Digits(_)
\* str(i) of f'{i}.png': the decimal digits of i >= 0
Digits(i) == IF i < 10 THEN <<i>> ELSE Append(Digits(i \div 10), i % 10)

FrameName(i) == <<Digits(i), "png">>

RECURSIVE DropLetters(_)
DropLetters(s) == IF s = <<>> \/ IsDigit(Head(s)) THEN s ELSE DropLetters(Tail(s))

RECURSIVE ParseDigits(_, _)
\* int() of the leading run of digits of s, value so far v
ParseDigits(s, v) ==
  IF s = <<>> \/ ~IsDigit(Head(s)) THEN v ELSE ParseDigits(Tail(s), 10 * v + Head(s))

\* int(re.search(r'(\d+)', os.path.basename(x)).group())
sortKey(name) == ParseDigits(DropLetters(name[1]), 0)

RECURSIVE InsertByKey(_, _)
\* x put after the elements of the sorted list whose key is at most x's (stable)
InsertByKey(sortedList, x) ==
  IF sortedList = <<>> THEN <<x>>
  ELSE IF sortKey(Head(sortedList)) <= sortKey(x)
       THEN <<Head(sortedList)>> \o InsertByKey(Tail(sortedList), x)
       ELSE <<x>> \o sortedList

RECURSIVE SortFrom(_, _, _)
SortFrom(list, j, done) ==
  IF j > Len(list) THEN done ELSE SortFrom(list, j + 1, InsertByKey(done, list[j]))

RECURSIVE NameBefore(_, _)
\* the order of str: s < t, character by character
NameBefore(s, t) ==
  IF t = <<>> THEN FALSE
  ELSE IF s = <<>> THEN TRUE
  ELSE IF Head(s) # Head(t) THEN Head(s) < Head(t)
  ELSE NameBefore(Tail(s), Tail(t))

RECURSIVE InsertByName(_, _)
InsertByName(sortedList, x) ==
  IF sortedList = <<>> THEN <<x>>
  ELSE IF NameBefore(x[1], Head(sortedList)[1])
       THEN <<x>> \o sortedList
       ELSE <<Head(sortedList)>> \o InsertByName(Tail(sortedList), x)

RECURSIVE SortByNameFrom(_, _, _)
SortByNameFrom(list, j, done) ==
  IF j > Len(list) THEN done ELSE SortByNameFrom(list, j + 1, InsertByName(done, list[j]))

\* sorted(imgs_list) with no key: the order of the strings
sortedByName(list) == SortByNameFrom(list, 1, <<>>)

\* sorted(imgs_list, key=...)
sorted(list) == SortFrom(list, 1, <<>>)

RECURSIVE NameOrder(_)
\* the names of a set in the order of their strings
NameOrder(names) ==
  IF names = {} THEN <<>>
  ELSE InsertByName(NameOrder(names \ {CHOOSE x \in names : TRUE}), CHOOSE x \in names : TRUE)

Reversed(list) == [q \in 1..Len(list) |-> list[Len(list) + 1 - q]]
Rotated(list, r) == [q \in 1..Len(list) |-> list[((q + r - 1) % Len(list)) + 1]]

\* the orders in which glob.glob may list the names of a set: every order of a small
\* set; of a larger one the order of the names, its reverse, and their rotations
Listings(names) ==
  IF Cardinality(names) <= MaxNt + 1
  THEN {l \in [1..Cardinality(names) -> names] : \A a, b \in DOMAIN l : a # b => l[a] # l[b]}
  ELSE {Rotated(NameOrder(names), r) : r \in 0..(Cardinality(names) - 1)}
       \cup {Rotated(Reversed(NameOrder(names)), r) : r \in 0..(Cardinality(names) - 1)}

----------------------------------------------------------------------------
\* The run

VARIABLES
  pc,         \* the statement the notebook is at
  par,        \* the constants of cell 1: N, Nt, dt, h, k, n, nu, m, lmbda
  pos, vel,   \* the particle arrays returned by initial(), updated in place
  acc, rho,   \* the loop's acc and rho (<<>> while unbound)
  it, i,      \* the position of range(Nt) and the loop variable
  dirExists,  \* whether output_3D_1 exists
  files,      \* the files of output_3D_1: name -> content
  imgs_list, lsorted, video   \* the export cell's lists and the frames written

vars == <<pc, par, pos, vel, acc, rho, it, i, dirExists, files, imgs_list, lsorted, video>>

\* h = 0.1, lmbda = 2.01, nu = 100, n = 1 of the notebook
NotebookChoice == [h |-> <<1, 10>>, lmbda |-> <<201, 100>>, nu |-> 100, n |-> 1]

\* configurations of the constants: the notebook's own, and variations of h, lmbda, nu, n
ParamChoices ==
  { NotebookChoice,
    [h |-> <<1, 10>>, lmbda |-> <<0, 1>>, nu |-> 0, n |-> 1],
    [h |-> <<1, 1>>, lmbda |-> <<0, 1>>, nu |-> 0, n |-> 1],
    [h |-> <<1, 1>>, lmbda |-> <<201, 100>>, nu |-> 100, n |-> 1],
    [h |-> <<0, 1>>, lmbda |-> <<201, 100>>, nu |-> 100, n |-> 1],
    [h |-> <<1, 10>>, lmbda |-> <<201, 100>>, nu |-> 100, n |-> 0] }

Params(c, N, Nt) ==
  [N |-> N, Nt |-> Nt,
   dt |-> FromRatio(1, 100),
   h |-> FromRatio(c.h[1], c.h[2]),
   k |-> FromRatio(1, 10),
   n |-> c.n,
   nu |-> FromInt(c.nu),
   m |-> FromRatio(StarMass, N),
   lmbda |-> FromRatio(c.lmbda[1], c.lmbda[2])]

\* points the seeded positions are drawn from, in quarters
PointPool == <<  <<0, 0, 0>>, <<4, 0, 0>>, <<2, 0 - 3, 1>>, <<0 - 9, 5, 8>>  >>

Point(p) == <<FromRatio(PointPool[p][1], 4), FromRatio(PointPool[p][2], 4),
              FromRatio(PointPool[p][3], 4)>>

\* the position arrays initial() may return: N points of the pool, in pool order
Seedings(N) ==
  {Vec(N, LAMBDA q : Point(ix[q])) :
     ix \in {f \in [1..N -> 1..Len(PointPool)] : \A a \in 1..(N - 1) : f[a] <= f[a + 1]}}

NoFiles == [x \in {} |-> 0]

\* what an earlier, longer run left in the directory, and a file that is no frame
OldFiles ==
  [x \in {FrameName(j) : j \in 0..(LongNt + 1)} \cup {<<<<Letter>>, "png">>, <<<<Letter>>, "txt">>}
     |-> [step |-> 0 - 1, pos |-> <<>>, cval |-> <<>>]]

\* the notebook before its main cell runs: the constants set, and output_3D_1 either
\* absent (followed for the runs of one particle) or left by an earlier run
Init ==
  /\ pc = "cleanup"
  /\ \/ \E c \in ParamChoices, N \in 1..MaxN, Nt \in 1..MaxNt : par = Params(c, N, Nt)
     \/ par = Params(NotebookChoice, 1, LongNt)
  /\ pos = <<>> /\ vel = <<>> /\ acc = <<>> /\ rho = <<>>
  /\ it = 0 /\ i = 0 - 1
  /\ \/ dirExists = FALSE /\ files = NoFiles /\ par.N = 1
     \/ dirExists = TRUE /\ files = OldFiles
  /\ imgs_list = <<>> /\ lsorted = <<>> /\ video = <<>>

\* os.mkdir('output_3D_1') when the directory does not exist
MakeDirOn == pc = "cleanup" /\ ~dirExists

MakeDir ==
  /\ MakeDirOn
  /\ dirExists' = TRUE
  /\ pc' = "initial"
  /\ UNCHANGED <<par, pos, vel, acc, rho, it, i, files, imgs_list, lsorted, video>>

\* the directory left as it was found
CleanDirKeeps ==
  /\ pc = "cleanup" /\ dirExists
  /\ pc' = "initial"
  /\ UNCHANGED <<par, pos, vel, acc, rho, it, i, dirExists, files, imgs_list, lsorted, video>>

\* else: os.remove of every output_3D_1/*.png
CleanDirOn == pc = "cleanup" /\ dirExists

CleanDir ==
  /\ CleanDirOn
  /\ files' = [x \in {y \in DOMAIN files : y[2] # "png"} |-> files[x]]
  /\ pc' = "initial"
  /\ UNCHANGED <<par, pos, vel, acc, rho, it, i, dirExists, imgs_list, lsorted, video>>

\* pos, vel = initial()
InitialOn == pc = "initial"

Initial ==
  /\ InitialOn
  /\ \E p \in Seedings(par.N) :
       /\ pos' = p
       /\ vel' = Vec(par.N, LAMBDA q : <<Zero(0), Zero(0), Zero(0)>>)
  /\ pc' = "for"
  /\ UNCHANGED <<par, acc, rho, it, i, dirExists, files, imgs_list, lsorted, video>>

\* range(Nt + 1): one index too many
ForNextOnInclusive == pc = "for" /\ it <= par.Nt

\* for i in range(Nt): the next index, or the end of the loop
ForNextOn == pc = "for" /\ it < par.Nt

ForNext ==
  /\ ForNextOn
  /\ i' = it /\ it' = it + 1
  /\ pc' = "acc"
  /\ UNCHANGED <<par, pos, vel, acc, rho, dirExists, files, imgs_list, lsorted, video>>

ForEndOn == pc = "for" /\ it >= par.Nt

ForEnd ==
  /\ ForEndOn
  /\ pc' = "glob"
  /\ UNCHANGED <<par, pos, vel, acc, rho, it, i, dirExists, files, imgs_list, lsorted, video>>

\* a scalar division by h * sqrt(pi), which Python refuses for h = 0
LoopAccOnScalarDivision == pc = "acc" /\ ~pressureRaises(par.n) /\ ~IsZero(par.h)

\* acc = acceleration(pos, vel, m, h, k, n, lmbda, nu)
LoopAccOn == pc = "acc" /\ ~pressureRaises(par.n)

\* acceleration() summing into the vel array it was passed
LoopAccIntoVel ==
  /\ LoopAccOn
  /\ acc' = acceleration(pos, vel, par.m, par.h, par.k, par.n, par.lmbda, par.nu)
  /\ vel' = acc'
  /\ pc' = "vel"
  /\ UNCHANGED <<par, pos, rho, it, i, dirExists, files, imgs_list, lsorted, video>>

LoopAcc ==
  /\ LoopAccOn
  /\ acc' = acceleration(pos, vel, par.m, par.h, par.k, par.n, par.lmbda, par.nu)
  /\ pc' = "vel"
  /\ UNCHANGED <<par, pos, vel, rho, it, i, dirExists, files, imgs_list, lsorted, video>>

\* the ZeroDivisionError of pressure() is not caught: the cell stops
LoopAccRaisesOn == pc = "acc" /\ pressureRaises(par.n)

LoopAccRaises ==
  /\ LoopAccRaisesOn
  /\ pc' = "aborted"
  /\ UNCHANGED <<par, pos, vel, acc, rho, it, i, dirExists, files, imgs_list, lsorted, video>>

\* vel += acc * dt
LoopVelOn == pc = "vel"

\* the two updates in the other order: pos += vel * dt, then vel += acc * dt
LoopVelSwapped ==
  /\ LoopVelOn
  /\ pos' = AddScaled(pos, vel, par.dt)
  /\ vel' = AddScaled(vel, acc, par.dt)
  /\ pc' = "rho"
  /\ UNCHANGED <<par, acc, rho, it, i, dirExists, files, imgs_list, lsorted, video>>

LoopVel ==
  /\ LoopVelOn
  /\ vel' = AddScaled(vel, acc, par.dt)
  /\ pc' = "pos"
  /\ UNCHANGED <<par, pos, acc, rho, it, i, dirExists, files, imgs_list, lsorted, video>>

\* pos += vel * dt
LoopPosOn == pc = "pos"

LoopPos ==
  /\ LoopPosOn
  /\ pos' = AddScaled(pos, vel, par.dt)
  /\ pc' = "rho"
  /\ UNCHANGED <<par, vel, acc, rho, it, i, dirExists, files, imgs_list, lsorted, video>>

\* rho = density(pos, pos, m, h)
LoopRhoOn == pc = "rho"

LoopRho ==
  /\ LoopRhoOn
  /\ rho' = density(pos, pos, par.m, par.h)
  /\ pc' = "plot"
  /\ UNCHANGED <<par, pos, vel, acc, it, i, dirExists, files, imgs_list, lsorted, video>>

\* cval = np.minimum((rho - 3) / 3, 1).flatten()
colours(density_) ==
  Vec(Len(density_), LAMBDA q :
    FMin(FDiv(FSub(density_[q], FromInt(3)), FromInt(3)), FromInt(1)))

\* the scatter plot of pos coloured by cval, saved as output_3D_1/{i}.png
LoopPlotOn == pc = "plot"

LoopPlot ==
  /\ LoopPlotOn
  /\ files' = [x \in DOMAIN files \cup {FrameName(i)} |->
                 IF x = FrameName(i)
                 THEN [step |-> i, pos |-> pos, cval |-> colours(rho)]
                 ELSE files[x]]
  /\ pc' = "for"
  /\ UNCHANGED <<par, pos, vel, acc, rho, it, i, dirExists, imgs_list, lsorted, video>>

\* imgs_list = glob.glob('output_3D_1/*.png'), in an arbitrary order
GlobOn == pc = "glob"

Glob ==
  /\ GlobOn
  /\ imgs_list' \in Listings({x \in DOMAIN files : x[2] = "png"})
  /\ pc' = "sort"
  /\ UNCHANGED <<par, pos, vel, acc, rho, it, i, dirExists, files, lsorted, video>>

\* lsorted = sorted(imgs_list, key=...)
SortListOn == pc = "sort"

SortList ==
  /\ SortListOn
  /\ lsorted' = sorted(imgs_list)
  /\ pc' = "video"
  /\ UNCHANGED <<par, pos, vel, acc, rho, it, i, dirExists, files, imgs_list, video>>

\* the frames are read in the order of lsorted and written to the video in that order
WriteVideoOn == pc = "video"

WriteVideo ==
  /\ WriteVideoOn
  /\ video' = Vec(Len(lsorted), LAMBDA q : files[lsorted[q]])
  /\ pc' = "done"
  /\ UNCHANGED <<par, pos, vel, acc, rho, it, i, dirExists, files, imgs_list, lsorted>>

Next ==
  \/ MakeDir \/ CleanDir \/ Initial
  \/ ForNext \/ ForEnd
  \/ LoopAcc \/ LoopAccRaises \/ LoopVel \/ LoopPos \/ LoopRho \/ LoopPlot
  \/ Glob \/ SortList \/ WriteVideo

Spec == Init /\ [][Next]_vars

----------------------------------------------------------------------------
\* Properties of the run

LoopBody == {"acc", "vel", "pos", "rho", "plot"}
AfterLoop == {"glob", "sort", "video", "done"}

\* the iterations of the main loop that have run to their end
StepsDone == IF pc \in LoopBody \cup {"aborted"} THEN i ELSE it

SeededRun == pos # <<>>

ValidH == par.h.k = 0 /\ par.h.m # 0 /\ par.h.s = 0

AllOf(arr, Test(_)) == \A p \in 1..Len(arr) : \A c \in 1..3 : Test(arr[p][c])

\* C1: in every iteration the velocity is updated first, from the acceleration of the
\* positions and velocities the iteration started with, and the position is then
\* updated from the updated velocity: vel' = vel + acceleration(pos, vel) * dt while
\* pos is kept, then pos' = pos + vel' * dt.
C1_VelocityThenPosition ==
  [][ /\ pc = "vel" =>
           /\ vel' = AddScaled(vel, acceleration(pos, vel, par.m, par.h, par.k, par.n,
                                                par.lmbda, par.nu), par.dt)
           /\ pos' = pos
           /\ pc' = "pos"
      /\ pc = "pos" =>
           /\ vel' = vel
           /\ pos' = AddScaled(pos, vel', par.dt) ]_vars

\* an iteration has moved a particle with the velocity it has just been given
C1_Witness ==
  /\ pc = "rho"
  /\ \E p \in 1..Len(vel) : vel[p][1].k = 0 /\ vel[p][1].m # 0
  /\ \E p \in 1..Len(pos) : pos[p] # Point(1) /\ pos[p][1].k = 0

\* the statements still to run: 6 per iteration not yet begun, and those left of
\* the iteration under way or of the cells around the loop
StatementsLeft ==
  6 * (par.Nt - it)
  + CASE pc = "cleanup" -> 9 [] pc = "initial" -> 8 [] pc = "for" -> 7
      [] pc = "acc" -> 12 [] pc = "vel" -> 11 [] pc = "pos" -> 10
      [] pc = "rho" -> 9 [] pc = "plot" -> 8
      [] pc = "glob" -> 3 [] pc = "sort" -> 2 [] pc = "video" -> 1
      [] OTHER -> 0

\* some statement of the notebook can run
CanStep ==
  \/ MakeDirOn \/ CleanDirOn \/ InitialOn \/ ForNextOn \/ ForEndOn
  \/ LoopAccOn \/ LoopAccRaisesOn \/ LoopVelOn \/ LoopPosOn \/ LoopRhoOn \/ LoopPlotOn
  \/ GlobOn \/ SortListOn \/ WriteVideoOn

\* C2: the loop runs exactly Nt iterations and then ends: the count of finished
\* iterations goes up by one at a time and never passes Nt; with n # 0 no iteration
\* fails; the run is never stuck before its end, every statement brings the end
\* nearer, and at the end of the loop, and of the run, the count is Nt.
C2_RunsNtSteps ==
  /\ [](StepsDone <= par.Nt)
  /\ [](par.n # 0 => pc # "aborted")
  /\ [](pc \notin {"done", "aborted"} => CanStep)
  /\ [](pc \in AfterLoop => StepsDone = par.Nt)
  /\ [][ /\ StepsDone' = StepsDone \/ StepsDone' = StepsDone + 1
         /\ StatementsLeft' < StatementsLeft
         /\ StatementsLeft' >= 0 ]_vars

C2_Witness == pc = "done" /\ StepsDone = par.Nt /\ par.Nt >= 2

FAbs(x) == [x EXCEPT !.s = 0]
FLe(a, b) == FLt(a, b) \/ FEq(a, b)

\* the machine epsilon 2^(1 - Prec)
Epsilon == Round(0, 1, 1 - Prec)

NoPull == IsZero(par.lmbda) /\ IsZero(par.nu)

\* the three matrices of pair terms that acceleration() sums, of the state's particles
PairTerms(m, c, g) ==
  [wx |-> Mat(Len(c), Len(c), LAMBDA p, q : pairTerm(m, c, g.wx, p, q)),
   wy |-> Mat(Len(c), Len(c), LAMBDA p, q : pairTerm(m, c, g.wy, p, q)),
   wz |-> Mat(Len(c), Len(c), LAMBDA p, q : pairTerm(m, c, g.wz, p, q))]

CoefOf(density_, k, n) == pressureCoef(pressure(density_, k, n), density_)

StateTerms ==
  PairTerms(par.m, CoefOf(density(pos, pos, par.m, par.h), par.k, par.n),
            gradOf(magnitude(pos, pos), par.h))

\* the term of particle p from particle q is the negation of that of q from p
Antisymmetric(t) ==
  \A p, q \in 1..Len(t) : t[p][q].k = 0 /\ FEq(t[p][q], FNeg(t[q][p]))

\* sum over the particles of m * a_i on axis c, summed as the arrays are
Momentum(a, m, c) == SumRow(Vec(Len(a), LAMBDA p : FMul(m, a[p][c])))

\* sum of the magnitudes of all pair terms of one axis
TotalAbs(t) == SumRow(Vec(Len(t), LAMBDA p : SumRow(Vec(Len(t), LAMBDA q : FAbs(t[p][q])))))

WithinRounding(a, m, c, t) ==
  FLe(FAbs(Momentum(a, m, c)),
      FMul(FMul(FromInt(2 * Len(a)), Epsilon), FMul(m, TotalAbs(t))))

ExactMomentum(a, m, t) ==
  /\ Antisymmetric(t.wx) /\ Antisymmetric(t.wy) /\ Antisymmetric(t.wz)
  /\ \A c \in 1..3 : IsZero(Momentum(a, m, c))

RoundedMomentum(a, m, t) ==
  /\ Antisymmetric(t.wx) /\ Antisymmetric(t.wy) /\ Antisymmetric(t.wz)
  /\ Len(a) <= 2 => \A c \in 1..3 : IsZero(Momentum(a, m, c))
  /\ WithinRounding(a, m, 1, t.wx)
  /\ WithinRounding(a, m, 2, t.wy)
  /\ WithinRounding(a, m, 3, t.wz)

\* C3 as claimed: with lmbda = 0 and nu = 0 the pair terms are antisymmetric and the
\* sum over the particles of m * a_i, of the acceleration just returned, is zero on
\* every axis.
C3_MomentumExactlyZero ==
  (pc = "vel" /\ NoPull) => ExactMomentum(acc, par.m, StateTerms)

\* C3, amended: with lmbda = 0 and nu = 0 the pair terms are exact negations of each
\* other; the sum over the particles of m * a_i is zero for one or two particles and,
\* for more, zero up to the rounding of the sums: at most 2N machine epsilons of m times
\* the summed magnitudes of the pair terms.
C3_MomentumZeroUpToRounding ==
  (pc = "vel" /\ NoPull) => RoundedMomentum(acc, par.m, StateTerms)

\* three particles whose accelerations are not all zero have been computed
C3_Witness ==
  /\ pc = "vel" /\ NoPull /\ par.N = 3
  /\ \E p \in 1..3 : ~IsZero(acc[p][1])
  /\ ~IsZero(Momentum(acc, par.m, 1))

\* C4: pos and vel are written only by initial() and by the two update statements, the
\* first writing vel only and the second pos only; the call of acceleration(), the call
\* of density(), the plot and the export leave both as they were; and the constants
\* h, k, n, lmbda, nu, m, dt, Nt (and N) never change.
C4_OnlyIntegratorWrites ==
  [][ /\ par' = par
      /\ pc \notin {"initial", "vel", "pos"} => (pos' = pos /\ vel' = vel)
      /\ pc = "vel" => pos' = pos
      /\ pc = "pos" => vel' = vel ]_vars

\* the second iteration has called acceleration() and density() on moving particles
C4_Witness ==
  /\ pc = "plot" /\ it = 2
  /\ \E p \in 1..Len(vel) : vel[p][1].k = 0 /\ ~IsZero(vel[p][1])

AllFinite(arr) == AllOf(arr, IsFinite)
AllNaN(arr) == AllOf(arr, IsNaN)

C6_VideoInStepOrder ==
  pc = "done" =>
    /\ Len(video) = Cardinality({x \in DOMAIN files : x[2] = "png"})
    /\ \A a, b \in 1..Len(video) : a < b => video[a].step < video[b].step
    /\ \A a \in 1..Len(video) : video[a] = files[FrameName(a - 1)]

\* frames with names of one and of two digits, listed in another order than written
C6_Witness ==
  /\ pc = "done" /\ Len(video) > 10
  /\ \E a \in 1..(Len(imgs_list) - 1) : sortKey(imgs_list[a]) > sortKey(imgs_list[a + 1])

IsPositive(x) == x.k # 2 /\ x.s = 0 /\ ~IsZero(x)

\* one value per particle, each greater than zero
PositiveDensities(d, N) == Len(d) = N /\ \A p \in 1..N : IsPositive(d[p])

\* C7: with h > 0, wherever a step calls density(pos, pos, m, h), in acceleration() and
\* after the position update, the result has N entries and each is greater than zero,
\* and so has the rho the step then plots.
C7_DensityPositive ==
  /\ (ValidH /\ pc \in {"acc", "rho"}) =>
        PositiveDensities(density(pos, pos, par.m, par.h), par.N)
  /\ (ValidH /\ pc = "plot") => PositiveDensities(rho, par.N)

\* densities of several particles, one of them out of reach of the others' kernels
C7_Witness ==
  /\ pc = "plot" /\ ValidH /\ par.N >= 2
  /\ PositiveDensities(rho, par.N)
  /\ \E p, q \in 1..par.N : ~FEq(rho[p], rho[q])

\* the two particles of the scenario, at rest at (0,0,0) and (1,0,0), h = 1, before the
\* position update of the first step
TwoParticleStep ==
  /\ pc = "pos" /\ it = 1 /\ par.N = 2 /\ NoPull /\ par.h = One
  /\ pos = <<Point(1), Point(2)>>

\* C8: in the two-particle scenario the first step leaves the velocities exact
\* negatives of each other on every axis, and the particles farther apart: they stay
\* on the x axis, neither moves towards the other and the first moves away.
C8_TwoParticlesRepel ==
  [][ TwoParticleStep =>
        /\ \A c \in 1..3 : FEq(vel'[1][c], FNeg(vel'[2][c]))
        /\ ~IsZero(vel'[1][1])
        /\ \A p \in 1..2 : IsZero(pos'[p][2]) /\ IsZero(pos'[p][3])
        /\ FLt(pos'[1][1], pos[1][1])
        /\ FLe(pos[2][1], pos'[2][1]) ]_vars

\* the scenario after its first step
C8_Witness ==
  /\ pc = "rho" /\ it = 1 /\ par.N = 2 /\ NoPull /\ par.h = One
  /\ IsNegative(pos[1][1]) /\ IsZero(pos[1][2]) /\ IsZero(pos[1][3])
  /\ FLe(One, pos[2][1]) /\ IsZero(pos[2][2]) /\ IsZero(pos[2][3])
  /\ IsNegative(vel[1][1])

External(position, velocity, lmbda, nu) ==
  Vec(Len(position), LAMBDA p : Vec(3, LAMBDA c :
    FSub(FMul(FNeg(lmbda), position[p][c]), FMul(nu, velocity[p][c]))))

SameValues(a, b) ==
  Len(a) = Len(b) /\ \A p \in 1..Len(a) : \A c \in 1..3 : FEq(a[p][c], b[p][c])

SelfKernel(h) == kernel(<<<<Zero(0)>>>>, <<<<Zero(0)>>>>, <<<<Zero(0)>>>>, h)[1][1]

\* C9: for a single particle (h > 0, n # 0), at every position and velocity of the run
\* the pressure term of acceleration() is zero on every axis, the acceleration returned
\* equals -lmbda * pos - nu * vel, and the density is m * kernel(0, 0, 0, h).
C9_SingleParticle ==
  (par.N = 1 /\ SeededRun /\ ValidH /\ par.n # 0) =>
    /\ AllOf(pressureAcc(pos, density(pos, pos, par.m, par.h), par.m, par.h, par.k, par.n),
             IsZero)
    /\ SameValues(acceleration(pos, vel, par.m, par.h, par.k, par.n, par.lmbda, par.nu),
                  External(pos, vel, par.lmbda, par.nu))
    /\ density(pos, pos, par.m, par.h) = <<FMul(par.m, SelfKernel(par.h))>>

\* a single particle away from the origin, moving, and pulled back
C9_Witness ==
  /\ par.N = 1 /\ pc = "vel" /\ it >= 2 /\ ValidH
  /\ ~IsZero(pos[1][1]) /\ ~IsZero(vel[1][1]) /\ ~IsZero(acc[1][1])

PngNames == {x \in DOMAIN files : x[2] = "png"}
Frames(count) == {FrameName(j) : j \in 0..(count - 1)}

\* C10: whatever the directory held, from initial() on its .png files are the frames
\* 0 .. StepsDone - 1 of this run, so Nt frames named 0.png to (Nt-1).png after the loop,
\* frame j holding step j; a frame is written only by the plot of iteration i, under
\* the name i.png not yet there, with the positions just updated and the colours of the
\* density of those positions, and it is not changed afterwards.
C10_FramesOfThisRun ==
  /\ [](pc \notin {"cleanup", "initial"} =>
          /\ PngNames = Frames(StepsDone)
          /\ \A x \in PngNames : x = FrameName(files[x].step))
  /\ [](pc \in AfterLoop => Cardinality(PngNames) = par.Nt)
  /\ [][ (pc # "cleanup" /\ files' # files) =>
           /\ pc = "plot"
           /\ FrameName(i) \notin DOMAIN files
           /\ DOMAIN files' = DOMAIN files \cup {FrameName(i)}
           /\ \A x \in DOMAIN files : files'[x] = files[x]
           /\ files'[FrameName(i)] =
                [step |-> i, pos |-> pos,
                 cval |-> colours(density(pos, pos, par.m, par.h))] ]_vars

\* a run of several steps over a directory that held the frames of a longer one
C10_Witness ==
  /\ pc = "done" /\ par.Nt >= 2
  /\ <<<<Letter>>, "txt">> \in DOMAIN files
  /\ Cardinality(PngNames) = par.Nt
====
